---- MODULE Spec2Model ----
(***************************************************************************)
(* A model of the file-selection and bounded file-processing core:        *)
(*   - FileProcessor (processFiles, processFileWithRetry, validateFile,   *)
(*     readFileWithProgress, getStats), as a state machine whose steps    *)
(*     are the suspension points (await) of the asynchronous code;        *)
(*   - IgnorePattern (normalizePattern, addPattern, shouldIgnore) and     *)
(*     scanDirectory, as operators over strings (sequences of             *)
(*     characters) driven by a small state machine.                       *)
(***************************************************************************)
EXTENDS Integers, Sequences, FiniteSets, TLC

(***************************************************************************)
(* Bounds of the model.                                                    *)
(***************************************************************************)
MaxFiles == 3          \* longest input list of processFiles
MaxCap == 2            \* largest value of options.maxConcurrent
MaxRetriesBound == 1   \* largest value of options.maxRetries
MaxRetriesPipeline == 3  \* largest value of options.maxRetries, one pipeline
MaxClock == 1          \* largest reading of Date.now()

(***************************************************************************)
(* Options of the processor that the model fixes (ProcessOptions).  The    *)
(* sizes are scaled down so that a file is a few chunks long.              *)
(***************************************************************************)
chunkSize == 1
maxFileSize == 2
retryDelay == 1000
skipLargeFiles == TRUE

(***************************************************************************)
(* The file system the processor runs against: what Deno.stat answers for  *)
(* each path.                                                              *)
(***************************************************************************)
Paths == {"a", "b", "e", "m", "big"}

FileSystem ==
    [p \in Paths |->
        CASE p = "a"   -> [exists |-> TRUE,  isFile |-> TRUE, size |-> 2]
          [] p = "b"   -> [exists |-> TRUE,  isFile |-> TRUE, size |-> 1]
          [] p = "e"   -> [exists |-> TRUE,  isFile |-> TRUE, size |-> 0]
          [] p = "m"   -> [exists |-> FALSE, isFile |-> FALSE, size |-> 0]
          [] p = "big" -> [exists |-> TRUE,  isFile |-> TRUE, size |-> maxFileSize + 1]]

\* The paths the input lists of several files are made of.
MultiPaths == {"a", "e", "m"}

None == "none"

VARIABLES
    files,          \* the argument of processFiles
    maxConcurrent,  \* options.maxConcurrent
    maxRetries,     \* options.maxRetries
    progressInterval, \* options.progressInterval
    queue,          \* processFiles: queue (indices into files, in order)
    inProgress,     \* processFiles: the Map, as its entries in insertion order
    gen,            \* state of the async generator
    exit,           \* how the generator completed, "none" until it has
    yielded,        \* the results the consumer has received
    tasks,          \* one record per call of processFileWithRetry
    stats,          \* this.stats
    channelClosed,  \* this.updateChannel has been closed
    now,            \* last reading of Date.now()
    crashed,        \* the runtime ended the process (unhandled rejection)
    calls,          \* how many times processFiles has been called
    snapshot        \* the last call of getStats: the object it returned, its
                    \* fields, and whether it is the object this.stats

\* The argument and the options: fixed once the processor is constructed.
procOptions == <<files, maxConcurrent, maxRetries, progressInterval>>

procVars == <<procOptions, queue, inProgress, gen, exit, yielded, tasks, stats,
              channelClosed, now, crashed, calls, snapshot>>

VARIABLES
    ignoreOptions,  \* IgnorePattern: this.options
    patterns,       \* IgnorePattern: this.patterns
    added,          \* the raw patterns given to addPatterns so far, in order
    asked,          \* the last call of shouldIgnore: its argument and answer
    scan,           \* the last call of scanDirectory: its inputs and result
    normed,           \* the last call of normalizePattern: its input and result
    load            \* the last call of loadFromFile: its inputs and result

ignoreVars == <<ignoreOptions, patterns, added, asked, scan, normed, load>>

vars == <<procVars, ignoreVars>>

(***************************************************************************)
(* Strings are sequences of characters.                                    *)
(***************************************************************************)
Sep == "/"

IsSpace(c) == c = " "

\* String.prototype.toLowerCase on a character of the model's alphabet.
ToLower(c) ==
    CASE c = "A" -> "a"
      [] c = "B" -> "b"
      [] c = "O" -> "o"
      [] c = "M" -> "m"
      [] OTHER -> c

LowerCase(str) == [k \in 1..Len(str) |-> ToLower(str[k])]

startsWith(str, c) == Len(str) > 0 /\ str[1] = c

Slice(str, from) == SubSeq(str, from, Len(str))

RECURSIVE TrimStart(_)
TrimStart(str) ==
    IF Len(str) > 0 /\ IsSpace(str[1]) THEN TrimStart(Tail(str)) ELSE str

RECURSIVE TrimEnd(_)
TrimEnd(str) ==
    IF Len(str) > 0 /\ IsSpace(str[Len(str)])
    THEN TrimEnd(SubSeq(str, 1, Len(str) - 1))
    ELSE str

\* String.prototype.trim
trim(str) == TrimEnd(TrimStart(str))

(***************************************************************************)
(* IgnorePattern.normalizePattern                                          *)
(***************************************************************************)
\* .replace(/\\/g, '/')
ConvertBackslashes(str) ==
    [k \in 1..Len(str) |-> IF str[k] = "\\" THEN Sep ELSE str[k]]

\* .replace(/^\.\/|^\//, '')
RemoveLeading(str) ==
    IF Len(str) >= 2 /\ str[1] = "." /\ str[2] = Sep THEN Slice(str, 3)
    ELSE IF Len(str) >= 1 /\ str[1] = Sep THEN Slice(str, 2)
    ELSE str

\* .replace(/\/$/, '')
RemoveTrailingSlash(str) ==
    IF Len(str) >= 1 /\ str[Len(str)] = Sep
    THEN SubSeq(str, 1, Len(str) - 1)
    ELSE str

normalizePattern(pattern, allowNegation) ==
    LET negative == allowNegation /\ startsWith(pattern, "!")
        sliced == IF negative THEN Slice(pattern, 2) ELSE pattern
    IN [pattern |-> RemoveTrailingSlash(RemoveLeading(ConvertBackslashes(trim(sliced)))),
        negative |-> negative]

(***************************************************************************)
(* globToRegExp(glob, { extended, globstar, caseInsensitive }) of the       *)
(* standard library, for globs made of literal characters, "?", "*" and    *)
(* "**": the regular expression as the sequence of its parts.              *)
(*   lit c     the character c                                             *)
(*   any       .                                                           *)
(*   wildcard  [^/]*                                                       *)
(*   sep       /+                                                          *)
(*   sepMaybe  /*                                                          *)
(*   globstar  (?:[^/]*(?:/|$)+)*                                          *)
(***************************************************************************)
Tok(kind, c) == [kind |-> kind, c |-> c]

\* "Remove trailing separators": all but the first character.
RECURSIVE StripTrailingSeps(_)
StripTrailingSeps(glob) ==
    IF Len(glob) > 1 /\ glob[Len(glob)] = Sep
    THEN StripTrailingSeps(SubSeq(glob, 1, Len(glob) - 1))
    ELSE glob

\* Index of the first separator of glob at or after i, Len(glob) + 1 if none.
RECURSIVE SegmentEnd(_, _)
SegmentEnd(glob, i) ==
    IF i > Len(glob) \/ glob[i] = Sep THEN i ELSE SegmentEnd(glob, i + 1)

\* Index of the first character of glob at or after i that is no separator.
RECURSIVE SkipSeps(_, _)
SkipSeps(glob, i) ==
    IF i <= Len(glob) /\ glob[i] = Sep THEN SkipSeps(glob, i + 1) ELSE i

\* Index after the run of "*" that starts at i.
RECURSIVE StarsEnd(_, _)
StarsEnd(glob, i) ==
    IF i <= Len(glob) /\ glob[i] = "*" THEN StarsEnd(glob, i + 1) ELSE i

\* The parts for the characters i..e-1 of one segment.
RECURSIVE SegmentParts(_, _, _)
SegmentParts(glob, i, e) ==
    IF i >= e THEN <<>>
    ELSE IF glob[i] = "*"
    THEN <<Tok("wildcard", "")>> \o SegmentParts(glob, StarsEnd(glob, i), e)
    ELSE IF glob[i] = "?"
    THEN <<Tok("any", "")>> \o SegmentParts(glob, i + 1, e)
    ELSE <<Tok("lit", glob[i])>> \o SegmentParts(glob, i + 1, e)

\* The parts for glob from the segment that starts at i.  Two stars that are
\* a whole segment are a globstar, which brings its own separators.
RECURSIVE GlobParts(_, _)
GlobParts(glob, i) ==
    IF i > Len(glob) THEN <<>>
    ELSE LET e == SegmentEnd(glob, i)
             isGlobstar == e = i + 2 /\ glob[i] = "*" /\ glob[i + 1] = "*"
             segment == IF isGlobstar THEN <<Tok("globstar", "")>>
                        ELSE SegmentParts(glob, i, e)
                             \o <<IF e <= Len(glob) THEN Tok("sep", "")
                                  ELSE Tok("sepMaybe", "")>>
         IN segment \o GlobParts(glob, SkipSeps(glob, e))

globToRegExp(glob, caseInsensitive) ==
    [parts |-> GlobParts(StripTrailingSeps(glob), 1),
     caseInsensitive |-> caseInsensitive]

\* str[from..to-1] has no separator / is made of separators.
NoSep(str, from, to) == \A r \in from..(to - 1) : str[r] # Sep
AllSep(str, from, to) == \A r \in from..(to - 1) : str[r] = Sep

\* The parts from the k-th on match str from position pos to its end.
RECURSIVE MatchParts(_, _, _, _, _)
MatchParts(parts, ci, k, str, pos) ==
    LET n == Len(str) IN
    IF k > Len(parts) THEN pos = n + 1
    ELSE LET part == parts[k] IN
      CASE part.kind = "lit" ->
             /\ pos <= n
             /\ IF ci THEN ToLower(str[pos]) = ToLower(part.c)
                      ELSE str[pos] = part.c
             /\ MatchParts(parts, ci, k + 1, str, pos + 1)
        [] part.kind = "any" ->
             /\ pos <= n
             /\ MatchParts(parts, ci, k + 1, str, pos + 1)
        [] part.kind = "wildcard" ->
             \E q \in pos..(n + 1) :
                 NoSep(str, pos, q) /\ MatchParts(parts, ci, k + 1, str, q)
        [] part.kind = "sep" ->
             \E q \in (pos + 1)..(n + 1) :
                 AllSep(str, pos, q) /\ MatchParts(parts, ci, k + 1, str, q)
        [] part.kind = "sepMaybe" ->
             \E q \in pos..(n + 1) :
                 AllSep(str, pos, q) /\ MatchParts(parts, ci, k + 1, str, q)
        [] part.kind = "globstar" ->
             \/ MatchParts(parts, ci, k + 1, str, pos)
             \/ \E q \in pos..(n + 1) :
                   /\ NoSep(str, pos, q)
                   /\ \/ q = n + 1 /\ MatchParts(parts, ci, k + 1, str, q)
                      \/ \E r \in (q + 1)..(n + 1) :
                            AllSep(str, q, r) /\ MatchParts(parts, ci, k, str, r)

\* RegExp.prototype.test
test(regexp, str) == MatchParts(regexp.parts, regexp.caseInsensitive, 1, str, 1)

(***************************************************************************)
(* IgnorePattern: addPattern, addPatterns, shouldIgnore                    *)
(***************************************************************************)
DEFAULT_OPTIONS ==
    [ignoreCase |-> TRUE, allowNegation |-> TRUE, useGitignore |-> TRUE,
     extraPatterns |-> <<>>]

addPatternKeepEmpty(rules, opts, pattern) ==
    LET norm == normalizePattern(pattern, opts.allowNegation) IN
    Append(rules, [pattern |-> globToRegExp(norm.pattern, opts.ignoreCase),
                   negative |-> norm.negative])

\* The rule list after addPattern(pattern) on the rule list rules.
addPattern(rules, opts, pattern) ==
    LET norm == normalizePattern(pattern, opts.allowNegation) IN
    IF norm.pattern = <<>> THEN rules
    ELSE Append(rules, [pattern |-> globToRegExp(norm.pattern, opts.ignoreCase),
                        negative |-> norm.negative])

\* patterns.forEach(pattern => this.addPattern(pattern))
RECURSIVE addPatterns(_, _, _)
addPatterns(rules, opts, list) ==
    IF list = <<>> THEN rules
    ELSE addPatterns(addPattern(rules, opts, Head(list)), opts, Tail(list))

RECURSIVE IgnoredFromFirstMatch(_, _, _, _)
IgnoredFromFirstMatch(rules, k, normalizedPath, ignored) ==
    IF k > Len(rules) THEN ignored
    ELSE IF test(rules[k].pattern, normalizedPath) THEN ~rules[k].negative
    ELSE IgnoredFromFirstMatch(rules, k + 1, normalizedPath, ignored)

\* The value of ignored after the rules k.. have been tried.
RECURSIVE IgnoredFrom(_, _, _, _)
IgnoredFrom(rules, k, normalizedPath, ignored) ==
    IF k > Len(rules) THEN ignored
    ELSE IgnoredFrom(rules, k + 1, normalizedPath,
                     IF test(rules[k].pattern, normalizedPath)
                     THEN ~rules[k].negative
                     ELSE ignored)

shouldIgnoreByDefault(rules, opts, path) ==
    IgnoredFrom(rules, 1, normalizePattern(path, opts.allowNegation).pattern, TRUE)

shouldIgnore(rules, opts, path) ==
    IgnoredFrom(rules, 1, normalizePattern(path, opts.allowNegation).pattern, FALSE)

(***************************************************************************)
(* IgnorePattern.loadFromFile and scanDirectory                            *)
(***************************************************************************)
\* The options object a caller passes: the keys it gives and their values.
NoOptions == [given |-> {}, values |-> DEFAULT_OPTIONS]

\* { ...IgnorePattern.DEFAULT_OPTIONS, ...options }
MergedOptions(options) ==
    [key \in DOMAIN DEFAULT_OPTIONS |->
        IF key \in options.given THEN options.values[key]
        ELSE DEFAULT_OPTIONS[key]]

\* A text file: whether it exists, and its content split at '\n'.
MissingFile == [exists |-> FALSE, lines |-> <<>>]
TextFile(lines) == [exists |-> TRUE, lines |-> lines]

PatternLinesKeepComments(lines) ==
    SelectSeq([k \in 1..Len(lines) |-> trim(lines[k])],
              LAMBDA line : line # <<>>)

\* content.split('\n').map(line => line.trim())
\*        .filter(line => line && !line.startsWith('#'))
PatternLines(lines) ==
    SelectSeq([k \in 1..Len(lines) |-> trim(lines[k])],
              LAMBDA line : line # <<>> /\ ~startsWith(line, "#"))

\* The rules of the matcher loadFromFile(path, options) returns, primary
\* being the file at path and secondary the file '.gitignore'.
loadFromFile(primary, secondary, options) ==
    LET opts == MergedOptions(options)
        extra == IF "extraPatterns" \in options.given
                 THEN addPatterns(<<>>, opts, options.values.extraPatterns)
                 ELSE <<>>
    IN
    IF ~primary.exists THEN extra
    ELSE LET own == addPatterns(extra, opts, PatternLines(primary.lines)) IN
         IF "useGitignore" \in options.given /\ options.values.useGitignore
            /\ secondary.exists
         THEN addPatterns(own, opts, PatternLines(secondary.lines))
         ELSE own

\* Index of the last "." of name, 0 if there is none.
RECURSIVE LastDot(_, _)
LastDot(name, k) ==
    IF k = 0 \/ name[k] = "." THEN k ELSE LastDot(name, k - 1)

\* entry.name.split('.').pop()?.toLowerCase() || ''
Extension(name) == LowerCase(Slice(name, LastDot(name, Len(name)) + 1))

\* The last segment of a relative path: entry.name.
EntryName(relativePath) ==
    LET RECURSIVE LastSep(_)
        LastSep(k) == IF k = 0 \/ relativePath[k] = Sep THEN k ELSE LastSep(k - 1)
    IN Slice(relativePath, LastSep(Len(relativePath)) + 1)

Includes(list, x) == \E k \in 1..Len(list) : list[k] = x

\* The loop over walk(baseDir): tree is the files under the directory in the
\* order walk reports them, each with its relative path and its size.
RECURSIVE ScanEntries(_, _, _, _)
ScanEntries(rules, opts, tree, extensions) ==
    IF tree = <<>> THEN <<>>
    ELSE LET entry == Head(tree)
             rest == ScanEntries(rules, opts, Tail(tree), extensions)
             ext == Extension(EntryName(entry.relativePath))
         IN
         IF shouldIgnore(rules, opts, entry.relativePath) THEN rest
         ELSE IF Len(extensions) > 0 /\ ~Includes(extensions, ext) THEN rest
         ELSE <<[relativePath |-> entry.relativePath, size |-> entry.size,
                 extension |-> ext]>> \o rest

\* scanDirectory(dir, { extensions }): ignoreFile is the file at ignorePath.
scanDirectory(ignoreFile, tree, extensions) ==
    ScanEntries(loadFromFile(ignoreFile, MissingFile, NoOptions),
                MergedOptions(NoOptions), tree, extensions)

(***************************************************************************)
(* The inputs the matcher and the scanner are tried on.                    *)
(***************************************************************************)
MaxRules == 2        \* most raw patterns given to one matcher

Negated(raw) == <<"!">> \o raw

PositivePatterns ==
    { <<"a", "/">>, <<"*", ".", "o">>, <<"a", "/", "*", "*">>,
      <<" ", "B", ".", "o">>, <<".", "/">> }

RawPatterns == PositivePatterns \cup {Negated(raw) : raw \in PositivePatterns}

\* The arguments of addPatterns: one pattern, or a pattern and its negation
\* in either order.
PatternLists ==
    {<<raw>> : raw \in RawPatterns}
        \cup {<<raw, Negated(raw)>> : raw \in PositivePatterns}
        \cup {<<Negated(raw), raw>> : raw \in PositivePatterns}

\* Raw patterns that normalize to the empty string (the third one only when
\* negation is enabled).
EmptyPatterns ==
    { <<>>, <<" ", " ">>, <<"!">>, <<"/">>, <<".", "/">> }

TestPaths ==
    { <<"a">>, <<"b", ".", "o">>, <<"a", "/", "b", ".", "o">>,
      <<"a", "/", "b", "/", "b", ".", "o">>, <<".", "/", "a">>,
      <<"a", "\\", "b", ".", "O">> }

build_ == <<"b", "u", "i", "l", "d", "/">>
build_a_o == <<"b", "u", "i", "l", "d", "/", "a", ".", "o">>
build_keep_txt ==
    <<"b", "u", "i", "l", "d", "/", "k", "e", "e", "p", ".", "t", "x", "t">>
Makefile == <<"M", "a", "k", "e", "f", "i", "l", "e">>

File(relativePath, size) == [relativePath |-> relativePath, size |-> size]

IgnoreFiles ==
    { MissingFile,
      TextFile(<<>>),
      TextFile(<<build_, Negated(build_keep_txt)>>),
      TextFile(<<Negated(build_keep_txt), build_>>),
      TextFile(<<<<"#", "a">>, <<>>, <<"*", ".", "o">>>>),
      TextFile(<<<<"b", "u", "i", "l", "d", "/", "?", ".", "o">>>>),
      TextFile(<<<<"b", "u", "i", "l", "d", "/", "*", "*">>,
                 Negated(build_keep_txt)>>) }

Trees ==
    { <<>>,
      <<File(build_a_o, 1), File(build_keep_txt, 2)>>,
      <<File(build_keep_txt, 2), File(<<"a", ".", "o">>, 1), File(build_a_o, 1)>>,
      <<File(Makefile, 3), File(<<"a", ".", "O">>, 1), File(build_keep_txt, 2)>>,
      <<File(<<"a", ".", "o">>, 1), File(Makefile, 3)>> }

ExtensionLists == { <<>>, <<<<"o">>>>, <<<<"t", "x", "t">>, <<>>>> }

MaxLen == 3          \* longest string given to normalizePattern

\* The characters normalizePattern treats specially, and one it does not.
Alphabet == {"!", " ", "/", ".", "\\", "a"}

Strings == UNION {[1..n -> Alphabet] : n \in 0..MaxLen}

\* The files loadFromFile reads: a comment, a blank line, an indented
\* comment, lines that are empty once normalized, and rules.
LoadFiles ==
    { MissingFile,
      TextFile(<<>>),
      TextFile(<<<<"#", "a">>, <<>>, <<"*", ".", "o">>>>),
      TextFile(<<<<" ", "#", "a">>, <<"!">>, <<" ", "a", "/", " ">>, <<"/">>,
                 <<"!", "b">>>>) }

\* The options objects given to loadFromFile.
LoadOptions ==
    {NoOptions}
        \cup {[given |-> g,
               values |-> [DEFAULT_OPTIONS EXCEPT !.useGitignore = u,
                                                  !.extraPatterns = x]] :
                 g \in (SUBSET {"useGitignore", "extraPatterns"}) \ {{}},
                 u \in BOOLEAN, x \in {<<>>, <<<<"x">>>>}}

(***************************************************************************)
(* The matcher and the scanner as a state machine.                         *)
(***************************************************************************)
\* asked: the last call of shouldIgnore since the rule list last changed.
NotAsked == [path |-> <<>>, answered |-> FALSE, ignored |-> FALSE]

NotScanned ==
    [ignoreFile |-> MissingFile, tree |-> <<>>, extensions |-> <<>>,
     done |-> FALSE, files |-> <<>>]

NotNormalized ==
    [input |-> <<>>, done |-> FALSE, pattern |-> <<>>, negative |-> FALSE]

NotLoaded ==
    [primary |-> MissingFile, secondary |-> MissingFile, options |-> NoOptions,
     done |-> FALSE, rules |-> <<>>]

\* new IgnorePattern(options), before anything was added, asked or scanned.
IgnoreIdle ==
    /\ ignoreOptions = MergedOptions(NoOptions)
    /\ patterns = <<>>
    /\ added = <<>>
    /\ asked = NotAsked
    /\ scan = NotScanned
    /\ normed = NotNormalized
    /\ load = NotLoaded

(***************************************************************************)
(* Values.                                                                 *)
(***************************************************************************)
NoFileError == [name |-> None, message |-> None, filePath |-> None, retryCount |-> 0]

\* A ProcessUpdate posted on the channel: n is the payload (bytesRead of a
\* progress event, the length of the content of a complete event, the
\* retryCount of the FileError of an error event).
Event(type, path, n) == [type |-> type, path |-> path, n |-> n]

NewTask ==
    [pc         |-> "new",     \* where the pipeline is suspended
     retryCount |-> 0,         \* processFileWithRetry: retryCount
     lastError  |-> None,      \* processFileWithRetry: lastError (its message)
     attempts   |-> 0,         \* calls of validateFile so far
     delays     |-> <<>>,      \* arguments of the calls of delay() so far
     bytesRead  |-> 0,         \* readFileWithProgress: bytesRead
     aborted    |-> FALSE,     \* controller.signal.aborted of this attempt
     armed      |-> {},        \* attempts whose timeout timer is still armed
     log        |-> <<>>,      \* the updates this pipeline has posted
     fileError  |-> NoFileError,  \* the FileError built on exhaustion
     thrown     |-> None,      \* name of the value the promise rejected with
     result     |-> -1]        \* length of the content the promise resolved to

Min(x, y) == IF x <= y THEN x ELSE y

SeqsUpTo(S, n) == UNION {[1..k -> S] : k \in 0..n}

IsDistinct(s) == \A j, k \in 1..Len(s) : s[j] = s[k] => j = k

(***************************************************************************)
(* new FileProcessor(options): initStats() and the open channel.           *)
(***************************************************************************)
initStats(t) ==
    [processed |-> 0, failed |-> 0, skipped |-> 0, totalSize |-> 0,
     startTime |-> t, endTime |-> -1]

\* getStats has not been called.
NotTaken == [taken |-> FALSE, value |-> initStats(0), shared |-> FALSE]

InitWith(fileLists, caps, retries, intervals) ==
    /\ files \in fileLists
    /\ maxConcurrent \in caps
    /\ maxRetries \in retries
    /\ progressInterval \in intervals
    /\ queue = <<>>
    /\ inProgress = <<>>
    /\ gen = "suspendedStart"
    /\ exit = None
    /\ yielded = <<>>
    /\ tasks = [i \in 1..Len(files) |-> NewTask]
    /\ now = 0
    /\ stats = initStats(now)
    /\ channelClosed = FALSE
    /\ crashed = FALSE
    /\ snapshot = NotTaken
    /\ calls = 1

\* Lists of up to MaxFiles paths (repeats included), progress reported after
\* every chunk.
Init ==
    /\ InitWith(SeqsUpTo(MultiPaths, MaxFiles), 1..MaxCap, 0..MaxRetriesBound, {0})
    /\ IgnoreIdle

\* One path of any kind, more retries, both regimes of progress reporting.
InitPipeline ==
    /\ InitWith({<<p>> : p \in Paths}, {1}, 0..MaxRetriesPipeline, {0, 1000})
    /\ IgnoreIdle

(***************************************************************************)
(* processFiles: the Map inProgress and the scheduling loop.               *)
(***************************************************************************)
\* inProgress.set(path, promise): a key already present keeps its place and
\* gets the new value.
MapSet(ip, path, id) ==
    IF \E k \in 1..Len(ip) : ip[k].path = path
    THEN [k \in 1..Len(ip) |->
            IF ip[k].path = path THEN [path |-> path, id |-> id] ELSE ip[k]]
    ELSE Append(ip, [path |-> path, id |-> id])

\* inProgress.delete(path)
MapDelete(ip, path) == SelectSeq(ip, LAMBDA e : e.path # path)

BelowCapOffByOne(ip) == Len(ip) <= maxConcurrent

\* inProgress.size < this.options.maxConcurrent
BelowCap(ip) == Len(ip) < maxConcurrent

AwaitedEntryNewest(ip) == ip[Len(ip)]

\* [...inProgress.entries()][0]
AwaitedEntry(ip) == Head(ip)

\* The promise the generator is suspended on is the one of pipeline i: a
\* rejection of any other promise has no handler.
Awaited(i) ==
    /\ gen = "awaiting"
    /\ inProgress # <<>>
    /\ AwaitedEntry(inProgress).id = i

\* processFileWithRetry(path) up to its first await: the loop is entered
\* (retryCount = 0 <= maxRetries) and validateFile awaits Deno.stat.
Started(t) == [t EXCEPT !.pc = "stat", !.attempts = 1]

\* The inner while loop: start pipelines while the queue is non-empty and the
\* map is below the cap.
RECURSIVE StartTasks(_, _, _)
StartTasks(q, ip, ts) ==
    IF q # <<>> /\ BelowCap(ip)
    THEN LET i == Head(q) IN
         StartTasks(Tail(q), MapSet(ip, files[i], i),
                    [ts EXCEPT ![i] = Started(@)])
    ELSE [queue |-> q, inProgress |-> ip, tasks |-> ts]

FinallyWithoutStamp(how) ==
    /\ exit' = how
    /\ channelClosed' = TRUE
    /\ gen' = "completed"
    /\ UNCHANGED <<stats, now>>

\* The finally block: stamp endTime, close the channel.  how: the way the try
\* block was left.
Finally(how) ==
    /\ exit' = how
    /\ \E t \in now..MaxClock :
          /\ now' = t
          /\ stats' = [stats EXCEPT !.endTime = t]
    /\ channelClosed' = TRUE
    /\ gen' = "completed"

\* The outer while loop from its test to the next await, or to its exit.
Loop(q, ip, ts) ==
    IF q = <<>> /\ ip = <<>>
    THEN /\ queue' = q
         /\ inProgress' = ip
         /\ tasks' = ts
         /\ Finally("drained")
    ELSE LET s == StartTasks(q, ip, ts) IN
         /\ queue' = s.queue
         /\ inProgress' = s.inProgress
         /\ tasks' = s.tasks
         /\ gen' = "awaiting"
         /\ UNCHANGED <<exit, stats, channelClosed, now>>

\* The consumer's first next(): the body starts, queue = [...files].
ConsumerFirstNext ==
    /\ ~crashed
    /\ gen = "suspendedStart"
    /\ Loop([i \in 1..Len(files) |-> i], <<>>, tasks)
    /\ UNCHANGED <<ignoreVars, procOptions, snapshot, calls, yielded, crashed>>

\* A later next(): the generator resumes after its yield.
ConsumerNext ==
    /\ ~crashed
    /\ gen = "suspendedYield"
    /\ Loop(queue, inProgress, tasks)
    /\ UNCHANGED <<ignoreVars, procOptions, snapshot, calls, yielded, crashed>>

\* The ProcessResult { path, content } yielded for map entry e, with two
\* notes for the record: the pipeline it came from, and whether a pipeline
\* started after that one had already finished when it was yielded.
Result(e) ==
    [path |-> e.path, content |-> tasks[e.id].result, id |-> e.id,
     overtaken |-> \E j \in (e.id + 1)..Len(files) : tasks[j].pc = "resolved"]

\* The awaited promise has resolved: delete the entry and yield.
AwaitResolved ==
    /\ ~crashed
    /\ gen = "awaiting"
    /\ LET e == AwaitedEntry(inProgress) IN
       /\ tasks[e.id].pc = "resolved"
       /\ inProgress' = MapDelete(inProgress, e.path)
       /\ yielded' = Append(yielded, Result(e))
    /\ gen' = "suspendedYield"
    /\ UNCHANGED <<ignoreVars, procOptions, snapshot, calls, exit, queue, tasks, stats,
                   channelClosed, now, crashed>>

AwaitRejectedYieldsError ==
    /\ ~crashed
    /\ gen = "awaiting"
    /\ LET e == AwaitedEntry(inProgress) IN
       /\ tasks[e.id].pc = "rejected"
       /\ inProgress' = MapDelete(inProgress, e.path)
       /\ yielded' = Append(yielded, Result(e))
    /\ gen' = "suspendedYield"
    /\ UNCHANGED <<ignoreVars, procOptions, snapshot, calls, exit, queue, tasks, stats,
                   channelClosed, now, crashed>>

\* The awaited promise has rejected: delete the entry and go round the loop.
AwaitRejected ==
    /\ ~crashed
    /\ gen = "awaiting"
    /\ LET e == AwaitedEntry(inProgress) IN
       /\ tasks[e.id].pc = "rejected"
       /\ Loop(queue, MapDelete(inProgress, e.path), tasks)
    /\ UNCHANGED <<ignoreVars, procOptions, snapshot, calls, yielded, crashed>>

\* return() on a generator that has not started: it completes without running
\* any of its body, so the try statement is never entered.
ConsumerReturnBeforeStart ==
    /\ ~crashed
    /\ gen = "suspendedStart"
    /\ gen' = "completed"
    /\ exit' = "unstarted"
    /\ UNCHANGED <<ignoreVars, procOptions, snapshot, calls, queue, inProgress, yielded,
                   tasks, stats, channelClosed, now, crashed>>

\* return() on a generator suspended at its yield (a break out of for await):
\* the finally block runs.
ConsumerReturnAtYield ==
    /\ ~crashed
    /\ gen = "suspendedYield"
    /\ Finally("returned")
    /\ UNCHANGED <<ignoreVars, procOptions, snapshot, calls, queue, inProgress, yielded,
                   tasks, crashed>>

(***************************************************************************)
(* processFileWithRetry, validateFile, readFileWithProgress.               *)
(***************************************************************************)
validateFileAnySize(path) ==
    LET stat == FileSystem[path] IN
    IF ~stat.exists THEN "File not found"
    ELSE IF ~stat.isFile THEN "Not a file"
    ELSE None

\* validateFile(path): the message of the error it throws, or None.
validateFile(path) ==
    LET stat == FileSystem[path] IN
    IF ~stat.exists THEN "File not found"
    ELSE IF ~stat.isFile THEN "Not a file"
    ELSE IF skipLargeFiles /\ stat.size > maxFileSize THEN "File too large"
    ELSE None

WithinRetriesStrict(rc) == rc < maxRetries

\* retryCount <= this.options.maxRetries (the loop test, and the test before
\* the backoff)
WithinRetries(rc) == rc <= maxRetries

BackoffConstant(rc) == retryDelay

\* this.options.retryDelay * retryCount
Backoff(rc) == retryDelay * rc

sendUpdateDropped(t, update) == t

\* sendUpdate(update) on pipeline record t: postMessage appends to what the
\* channel has carried; on a closed channel postMessage throws instead.
sendUpdate(t, update) == [t EXCEPT !.log = Append(@, update)]

\* The catch block of processFileWithRetry for pipeline i, entered with the
\* pipeline record t and the stats st as the try block left them, and then,
\* when the retries are exhausted, lines 253-263.
Catch(i, t, st, message) ==
    LET rc == t.retryCount + 1
        caught == [t EXCEPT !.lastError = message, !.retryCount = rc]
        fileError == [name |-> "FileProcessError", message |-> message,
                      filePath |-> files[i], retryCount |-> rc]
        failedT == [caught EXCEPT !.fileError = fileError, !.pc = "rejected"]
    IN
    IF WithinRetries(rc)
    THEN /\ tasks' = [tasks EXCEPT ![i] =
                        [caught EXCEPT !.pc = "delay",
                                       !.delays = Append(@, Backoff(rc))]]
         /\ stats' = st
         /\ crashed' = crashed
    ELSE /\ tasks' = [tasks EXCEPT ![i] =
                        IF channelClosed
                        THEN [failedT EXCEPT !.thrown = "InvalidStateError"]
                        ELSE [sendUpdate(failedT, Event("error", files[i], rc))
                                EXCEPT !.thrown = "FileProcessError"]]
         /\ stats' = [st EXCEPT !.failed = @ + 1]
         /\ crashed' = ~Awaited(i)

\* Deno.stat has answered in validateFile.  On success: a new controller, the
\* timer armed, the start update, and readFileWithProgress awaits Deno.open.
ValidateDone(i) ==
    /\ ~crashed
    /\ tasks[i].pc = "stat"
    /\ LET t == tasks[i]
           message == validateFile(files[i])
           timed == [t EXCEPT !.aborted = FALSE,
                              !.armed = @ \cup {t.attempts}]
       IN
       IF message # None
       THEN Catch(i, t, stats, message)
       ELSE IF channelClosed
       THEN Catch(i, timed, stats, "InvalidStateError")
       ELSE /\ tasks' = [tasks EXCEPT ![i] =
                           [sendUpdate(timed, Event("start", files[i], 0))
                               EXCEPT !.pc = "open", !.bytesRead = 0]]
            /\ UNCHANGED <<stats, crashed>>
    /\ UNCHANGED <<ignoreVars, procOptions, snapshot, calls, queue, inProgress, gen, exit,
                   yielded, channelClosed, now>>

\* Top of the read loop: a signal already aborted throws, else file.read is
\* awaited.
ReadLoop(i, t) ==
    IF t.aborted
    THEN Catch(i, t, stats, "Operation aborted")
    ELSE /\ tasks' = [tasks EXCEPT ![i] = [t EXCEPT !.pc = "read"]]
         /\ UNCHANGED <<stats, crashed>>

\* Deno.open and file.stat have answered: the read loop starts.
OpenDone(i) ==
    /\ ~crashed
    /\ tasks[i].pc = "open"
    /\ ReadLoop(i, tasks[i])
    /\ UNCHANGED <<ignoreVars, procOptions, snapshot, calls, queue, inProgress, gen, exit,
                   yielded, channelClosed, now>>

NextChunkNeverEmptyAtFirst(path, bytesRead) ==
    IF bytesRead = 0 THEN chunkSize
    ELSE Min(chunkSize, FileSystem[path].size - bytesRead)

\* What file.read returns with bytesRead bytes already read: the number of
\* bytes of the next chunk, 0 standing for null (end of file).
NextChunk(path, bytesRead) == Min(chunkSize, FileSystem[path].size - bytesRead)

\* The success path after the read loop: clearTimeout, processed++, the
\* complete update (which throws into the catch block on a closed channel).
ReadComplete(i, t) ==
    LET cleared == [t EXCEPT !.armed = @ \ {t.attempts}]
        st == [stats EXCEPT !.processed = @ + 1]
    IN
    IF channelClosed
    THEN Catch(i, cleared, st, "InvalidStateError")
    ELSE /\ tasks' = [tasks EXCEPT ![i] =
                        [sendUpdate(cleared, Event("complete", files[i], t.bytesRead))
                            EXCEPT !.pc = "resolved", !.result = t.bytesRead]]
         /\ stats' = st
         /\ UNCHANGED crashed

\* now - lastProgress >= this.options.progressInterval: with an interval of 0
\* it holds at every reading of the clock, otherwise the clock decides.
IntervalElapsed(elapsed) == progressInterval = 0 => elapsed

\* file.read has answered.  elapsed: whether the interval test holds.
ReadDone(i, elapsed) ==
    /\ ~crashed
    /\ tasks[i].pc = "read"
    /\ IntervalElapsed(elapsed)
    /\ LET t == tasks[i]
           chunk == NextChunk(files[i], t.bytesRead)
           read == [t EXCEPT !.bytesRead = @ + chunk]
       IN
       IF chunk = 0
       THEN ReadComplete(i, t)
       ELSE IF ~elapsed
       THEN ReadLoop(i, read)
       ELSE IF channelClosed
       THEN Catch(i, read, stats, "InvalidStateError")
       ELSE ReadLoop(i, sendUpdate(read, Event("progress", files[i], read.bytesRead)))
    /\ UNCHANGED <<ignoreVars, procOptions, snapshot, calls, queue, inProgress, gen, exit,
                   yielded, channelClosed, now>>

TimerFireAbortsCurrent(i, k) ==
    /\ ~crashed
    /\ k \in tasks[i].armed
    /\ tasks' = [tasks EXCEPT ![i] =
                    [@ EXCEPT !.armed = @ \ {k},
                              !.aborted = @ \/ tasks[i].pc \in {"open", "read"}]]
    /\ UNCHANGED <<ignoreVars, procOptions, snapshot, calls, queue, inProgress, gen,
                   exit, yielded, stats, channelClosed, now, crashed>>

\* The timer of attempt k of pipeline i fires: controller.abort() on the
\* controller of that attempt.
TimerFire(i, k) ==
    /\ ~crashed
    /\ k \in tasks[i].armed
    /\ tasks' = [tasks EXCEPT ![i] =
                    [@ EXCEPT !.armed = @ \ {k},
                              !.aborted = @ \/ (k = tasks[i].attempts
                                                /\ tasks[i].pc \in {"open", "read"})]]
    /\ UNCHANGED <<ignoreVars, procOptions, snapshot, calls, queue, inProgress, gen, exit,
                   yielded, stats, channelClosed, now, crashed>>

\* The backoff delay is over: the loop test holds (it was checked before the
\* delay), and validateFile is called again.
DelayDone(i) ==
    /\ ~crashed
    /\ tasks[i].pc = "delay"
    /\ tasks' = [tasks EXCEPT ![i] =
                    [@ EXCEPT !.pc = "stat", !.attempts = @ + 1]]
    /\ UNCHANGED <<ignoreVars, procOptions, snapshot, calls, queue, inProgress, gen, exit,
                   yielded, stats, channelClosed, now, crashed>>

Next ==
    \/ ConsumerFirstNext
    \/ ConsumerNext
    \/ AwaitResolved
    \/ AwaitRejected
    \/ ConsumerReturnBeforeStart
    \/ ConsumerReturnAtYield
    \/ \E i \in 1..Len(files) : ValidateDone(i)
    \/ \E i \in 1..Len(files) : OpenDone(i)
    \/ \E i \in 1..Len(files), elapsed \in BOOLEAN : ReadDone(i, elapsed)
    \/ \E i \in 1..Len(files) : \E k \in tasks[i].armed : TimerFire(i, k)
    \/ \E i \in 1..Len(files) : DelayDone(i)

Spec == Init /\ [][Next]_vars

SpecPipeline == InitPipeline /\ [][Next]_vars

\* file.read rejects (an I/O failure): the error leaves readFileWithProgress
\* and is caught by processFileWithRetry, the timer of the attempt still armed.
ReadError(i) ==
    /\ ~crashed
    /\ tasks[i].pc = "read"
    /\ Catch(i, tasks[i], stats, "Read failed")
    /\ UNCHANGED <<ignoreVars, procOptions, snapshot, calls, queue, inProgress, gen,
                   exit, yielded, channelClosed, now>>

\* The processor with reads that may fail.
NextReadError ==
    \/ Next
    \/ \E i \in 1..Len(files) : ReadError(i)

GetStatsResetting ==
    /\ ~crashed
    /\ snapshot' = [taken |-> TRUE, value |-> stats, shared |-> FALSE]
    /\ stats' = initStats(now)
    /\ UNCHANGED <<ignoreVars, procOptions, calls, queue, inProgress, gen, exit,
                   yielded, tasks, channelClosed, now, crashed>>

GetStatsShared ==
    /\ ~crashed
    /\ snapshot' = [taken |-> TRUE, value |-> stats, shared |-> TRUE]
    /\ UNCHANGED <<ignoreVars, procOptions, calls, queue, inProgress, gen, exit,
                   yielded, tasks, stats, channelClosed, now, crashed>>

\* getStats(): { ...this.stats }, a new object holding the fields of
\* this.stats as they are at the call.
GetStats ==
    /\ ~crashed
    /\ snapshot' = [taken |-> TRUE, value |-> stats, shared |-> FALSE]
    /\ UNCHANGED <<ignoreVars, procOptions, calls, queue, inProgress, gen, exit,
                   yielded, tasks, stats, channelClosed, now, crashed>>

\* Shorter lists, and getStats called at any moment.
InitStats ==
    /\ InitWith(SeqsUpTo(MultiPaths, MaxFiles - 1), 1..MaxCap,
                0..MaxRetriesBound, {0})
    /\ IgnoreIdle

NextStats ==
    \/ Next
    \/ GetStats

SpecStats == InitStats /\ [][NextStats]_vars

SpecReadError == InitStats /\ [][NextReadError]_vars

\* A consumer that iterates to the end (it never calls return()), and reads,
\* timers and delays that eventually return: no step that can be taken is
\* put off for ever.
NextToTheEnd ==
    \/ ConsumerFirstNext
    \/ ConsumerNext
    \/ AwaitResolved
    \/ AwaitRejected
    \/ \E i \in 1..Len(files) : ValidateDone(i)
    \/ \E i \in 1..Len(files) : OpenDone(i)
    \/ \E i \in 1..Len(files), elapsed \in BOOLEAN : ReadDone(i, elapsed)
    \/ \E i \in 1..Len(files) : \E k \in tasks[i].armed : TimerFire(i, k)
    \/ \E i \in 1..Len(files) : DelayDone(i)

SpecToTheEnd ==
    InitStats /\ [][NextToTheEnd]_vars /\ WF_vars(NextToTheEnd)

MaxCalls == 2        \* most calls of processFiles on one processor

\* processFiles(files) is called again on the same processor, once the
\* generator of the previous call has drained and none of its pipelines is
\* running: a new generator, new pipelines, the same stats and the same
\* channel.
ProcessFilesAgain ==
    /\ ~crashed
    /\ calls < MaxCalls
    /\ gen = "completed"
    /\ exit = "drained"
    /\ \A i \in 1..Len(files) : tasks[i].pc \in {"new", "resolved", "rejected"}
    /\ calls' = calls + 1
    /\ gen' = "suspendedStart"
    /\ exit' = None
    /\ queue' = <<>>
    /\ inProgress' = <<>>
    /\ yielded' = <<>>
    /\ tasks' = [i \in 1..Len(files) |-> NewTask]
    /\ UNCHANGED <<ignoreVars, procOptions, snapshot, stats, channelClosed,
                   now, crashed>>

NextSecondCall ==
    \/ Next
    \/ ProcessFilesAgain

SpecSecondCall == InitStats /\ [][NextSecondCall]_vars

\* What the caller reads in the object getStats returned.
Observed == IF snapshot.shared THEN stats ELSE snapshot.value

\* The caller writes to a field of the object getStats returned (a value the
\* processor never stores): the write lands in the object that was returned.
CallerModifies(field) ==
    /\ ~crashed
    /\ snapshot.taken
    /\ Observed[field] # -1
    /\ IF snapshot.shared
       THEN /\ stats' = [stats EXCEPT ![field] = -1]
            /\ UNCHANGED snapshot
       ELSE /\ snapshot' = [snapshot EXCEPT !.value[field] = -1]
            /\ UNCHANGED stats
    /\ UNCHANGED <<ignoreVars, procOptions, calls, queue, inProgress, gen, exit,
                   yielded, tasks, channelClosed, now, crashed>>

NextSnapshot ==
    \/ Next
    \/ GetStats
    \/ \E field \in {"processed", "failed"} : CallerModifies(field)

SpecSnapshot == InitStats /\ [][NextSnapshot]_vars

(***************************************************************************)
(* The specification of the matcher and the scanner: a matcher constructed *)
(* with some options, patterns added to it, paths asked about; and the    *)
(* specification of the scanner: directories scanned.  No processor runs.  *)
(***************************************************************************)
InitIgnore ==
    /\ InitWith({<<>>}, {1}, {0}, {0})
    /\ \E ic, an \in BOOLEAN :
          ignoreOptions =
              MergedOptions([given |-> {"ignoreCase", "allowNegation"},
                             values |-> [DEFAULT_OPTIONS EXCEPT
                                            !.ignoreCase = ic,
                                            !.allowNegation = an]])
    /\ patterns = <<>>
    /\ added = <<>>
    /\ asked = NotAsked
    /\ scan = NotScanned
    /\ normed = NotNormalized
    /\ load = NotLoaded

\* ignore.addPatterns(list)
AddPatterns(list) ==
    /\ Len(added) + Len(list) <= MaxRules
    /\ patterns' = addPatterns(patterns, ignoreOptions, list)
    /\ added' = added \o list
    /\ asked' = NotAsked
    /\ UNCHANGED <<ignoreOptions, scan, normed, load, procVars>>

\* ignore.shouldIgnore(path)
ShouldIgnore(path) ==
    /\ asked' = [path |-> path, answered |-> TRUE,
                 ignored |-> shouldIgnore(patterns, ignoreOptions, path)]
    /\ UNCHANGED <<ignoreOptions, patterns, added, scan, normed, load, procVars>>

\* scanDirectory(dir, { extensions }) with the ignore file and the tree it
\* finds.
ScanDirectory(ignoreFile, tree, extensions) ==
    /\ scan' = [ignoreFile |-> ignoreFile, tree |-> tree,
                extensions |-> extensions, done |-> TRUE,
                files |-> scanDirectory(ignoreFile, tree, extensions)]
    /\ UNCHANGED <<ignoreOptions, patterns, added, asked, normed, load, procVars>>

NextIgnore ==
    \/ \E list \in PatternLists : AddPatterns(list)
    \/ \E raw \in EmptyPatterns : AddPatterns(<<raw>>)
    \/ \E path \in TestPaths : ShouldIgnore(path)

SpecIgnore == InitIgnore /\ [][NextIgnore]_vars

InitScan ==
    /\ InitWith({<<>>}, {1}, {0}, {0})
    /\ IgnoreIdle

NextScan ==
    \E ignoreFile \in IgnoreFiles, tree \in Trees, extensions \in ExtensionLists :
        ScanDirectory(ignoreFile, tree, extensions)

SpecScan == InitScan /\ [][NextScan]_vars

\* this.normalizePattern(input) on a matcher with the options ignoreOptions.
NormalizePattern(input) ==
    /\ LET result == normalizePattern(input, ignoreOptions.allowNegation) IN
       normed' = [input |-> input, done |-> TRUE, pattern |-> result.pattern,
                negative |-> result.negative]
    /\ UNCHANGED <<ignoreOptions, patterns, added, asked, scan, load, procVars>>

\* normalizePattern applied to the string the last call returned.
NormalizeAgain ==
    /\ normed.done
    /\ NormalizePattern(normed.pattern)

NextNormalize ==
    \/ \E input \in Strings : NormalizePattern(input)
    \/ NormalizeAgain

SpecNormalize == InitIgnore /\ [][NextNormalize]_vars

\* IgnorePattern.loadFromFile(path, options), primary being the file at path
\* and secondary the file '.gitignore'.
LoadFromFile(primary, secondary, options) ==
    /\ load' = [primary |-> primary, secondary |-> secondary,
                options |-> options, done |-> TRUE,
                rules |-> loadFromFile(primary, secondary, options)]
    /\ UNCHANGED <<ignoreOptions, patterns, added, asked, scan, normed, procVars>>

NextLoad ==
    \E primary \in LoadFiles, secondary \in LoadFiles, options \in LoadOptions :
        LoadFromFile(primary, secondary, options)

SpecLoad == InitScan /\ [][NextLoad]_vars

(***************************************************************************)
(* Properties of the processor.                                            *)
(***************************************************************************)
Terminal == {"resolved", "rejected"}

\* The pipelines that have been started and have not reached a terminal
\* success or failure.
Running == {i \in 1..Len(files) : tasks[i].pc \notin {"new"} \cup Terminal}

\* The body of processFiles ran to the end of its loop.
Drained ==
    /\ gen = "completed"
    /\ exit = "drained"
    /\ queue = <<>>
    /\ inProgress = <<>>

\* C1: for a list of distinct paths, the results are yielded in input order:
\* each result is the one of the input entry it names, and a result yielded
\* earlier comes from an earlier position of the input list, whichever
\* pipeline finished first.
C1_YieldedInInputOrder ==
    IsDistinct(files) =>
        /\ \A k \in 1..Len(yielded) : yielded[k].path = files[yielded[k].id]
        /\ \A j, k \in 1..Len(yielded) : j < k => yielded[j].id < yielded[k].id

\* Two results were yielded in input order, the earlier one after a pipeline
\* started later had already finished.
C1_Witness ==
    /\ IsDistinct(files)
    /\ Len(yielded) >= 2
    /\ yielded[1].overtaken
    /\ yielded[1].id < yielded[2].id

C4_LinearBackoff ==
    \A i \in 1..Len(files) :
        /\ \A k \in 1..Len(tasks[i].delays) : tasks[i].delays[k] = retryDelay * k
        /\ Len(tasks[i].delays) = Min(tasks[i].retryCount, maxRetries)
        /\ tasks[i].pc = "rejected" =>
              /\ tasks[i].retryCount = maxRetries + 1
              /\ Len(tasks[i].delays) = maxRetries

\* A pipeline has failed for good after three waits.
C4_Witness ==
    \E i \in 1..Len(files) :
        /\ tasks[i].pc = "rejected"
        /\ maxRetries = 3
        /\ Len(tasks[i].delays) = 3
        /\ tasks[i].delays[3] = retryDelay * 3

\* C5: failure is isolated: when a path has exhausted its retries, the
\* processing of the other paths goes on, so the process is never stopped
\* with another input path unstarted or unfinished.
C5_FailureIsolated ==
    \A i \in 1..Len(files) :
        tasks[i].pc = "rejected" =>
            ~(crashed /\ \E j \in 1..Len(files) :
                            j # i /\ tasks[j].pc \notin Terminal)

C7_DrainStampsAndCloses ==
    Drained =>
        /\ stats.endTime # -1
        /\ stats.endTime >= stats.startTime
        /\ channelClosed

\* A drain of several paths, some yielded.
C7_Witness ==
    /\ Drained
    /\ Len(files) >= 2
    /\ yielded # <<>>
    /\ stats.endTime >= stats.startTime

\* C8: whichever way the consumer leaves the generator, once the generator
\* has completed endTime is stamped and the channel is closed.
C8_CleanupOnEveryExit ==
    gen = "completed" => (stats.endTime # -1 /\ channelClosed)

(***************************************************************************)
(* Properties of the matcher and the scanner.                              *)
(***************************************************************************)
\* The rule compiled from the raw pattern raw matches the path, both
\* normalized under the matcher's options.
Matches(raw, path) ==
    LET norm == normalizePattern(raw, ignoreOptions.allowNegation).pattern IN
    /\ norm # <<>>
    /\ test(globToRegExp(norm, ignoreOptions.ignoreCase),
            normalizePattern(path, ignoreOptions.allowNegation).pattern)

\* The rules of the matcher that match the path asked about.
MatchingRules ==
    {k \in 1..Len(patterns) :
        test(patterns[k].pattern,
             normalizePattern(asked.path, ignoreOptions.allowNegation).pattern)}

Greatest(S) == CHOOSE x \in S : \A y \in S : y <= x

\* C9: the answer of shouldIgnore is the verdict of the last added rule that
\* matches the path (not ignored when none does); so, on a matcher with
\* negation enabled, for a pattern P that matches the path, P then !P
\* answers "not ignored" and !P then P answers "ignored".
C9_LastMatchWins ==
    asked.answered =>
        /\ asked.ignored = /\ MatchingRules # {}
                           /\ ~patterns[Greatest(MatchingRules)].negative
        /\ \A P \in PositivePatterns :
              (ignoreOptions.allowNegation /\ Matches(P, asked.path)) =>
                  /\ added = <<P, Negated(P)>> => ~asked.ignored
                  /\ added = <<Negated(P), P>> => asked.ignored

\* !P then P were added and a path that P matches was found ignored.
C9_Witness ==
    \E P \in PositivePatterns :
        /\ ignoreOptions.allowNegation
        /\ added = <<Negated(P), P>>
        /\ asked.answered
        /\ Matches(P, asked.path)
        /\ asked.ignored

RelativePaths(list) == {list[k].relativePath : k \in 1..Len(list)}

\* C10: a scan with the rules build/ and !build/keep.txt, and no extension
\* list, of a tree that holds build/a.o and build/keep.txt yields
\* build/keep.txt and does not yield build/a.o.
C10_DirectoryRuleExcludes ==
    ( /\ scan.done
      /\ scan.ignoreFile = TextFile(<<build_, Negated(build_keep_txt)>>)
      /\ scan.extensions = <<>>
      /\ {build_a_o, build_keep_txt} \subseteq RelativePaths(scan.tree) )
    => /\ build_keep_txt \in RelativePaths(scan.files)
       /\ build_a_o \notin RelativePaths(scan.files)

(***************************************************************************)
(* Properties of normalizePattern and loadFromFile.                        *)
(***************************************************************************)
\* C11: normalization is idempotent: normalizePattern applied to the string
\* a call of normalizePattern returned gives that same string back, whether
\* negation is enabled or not.
C11_NormalizeIdempotent ==
    normed.done =>
        normalizePattern(normed.pattern, ignoreOptions.allowNegation).pattern
            = normed.pattern

\* The raw lines of a file that loadFromFile is said to turn into rules: the
\* file when it is present, nothing when it is missing.
RulesOfFile(file) == IF file.exists THEN PatternLines(file.lines) ELSE <<>>

\* C12: the rule list of loadFromFile is made of the extra patterns, then the
\* lines of the primary file, then, when the matcher's useGitignore option is
\* on, the lines of the secondary file; a missing file adds nothing, and each
\* present file's rules are loaded whichever of the two files is missing.
C12_RuleSourcingOrder ==
    load.done =>
        LET opts == MergedOptions(load.options) IN
        load.rules =
            addPatterns(<<>>, opts,
                        opts.extraPatterns
                            \o RulesOfFile(load.primary)
                            \o (IF opts.useGitignore
                                THEN RulesOfFile(load.secondary)
                                ELSE <<>>))

\* The lines of a file that are, once trimmed, neither blank nor a comment
\* nor empty after normalization.
RuleLines(lines, allowNegation) ==
    {k \in 1..Len(lines) :
        /\ trim(lines[k]) # <<>>
        /\ trim(lines[k])[1] # "#"
        /\ normalizePattern(trim(lines[k]), allowNegation).pattern # <<>>}

\* The number of rules the last call of loadFromFile added from its primary
\* file and from its secondary file: what the file being there changes.
FromPrimary ==
    Len(loadFromFile(load.primary, MissingFile, load.options))
        - Len(loadFromFile(MissingFile, MissingFile, load.options))

FromSecondary ==
    Len(load.rules) - Len(loadFromFile(load.primary, MissingFile, load.options))

C14_NoMatchNotIgnored ==
    (asked.answered /\ \A k \in 1..Len(added) : ~Matches(added[k], asked.path))
        => ~asked.ignored

\* A matcher holding negated rules only was asked about a path that none of
\* them matches, and answered "not ignored".
C14_Witness ==
    /\ ignoreOptions.allowNegation
    /\ Len(patterns) = 2
    /\ \A k \in 1..Len(patterns) : patterns[k].negative
    /\ asked.answered
    /\ \A k \in 1..Len(added) : ~Matches(added[k], asked.path)
    /\ ~asked.ignored

(***************************************************************************)
(* Properties of one pipeline: validation, reading, progress, timeout.     *)
(***************************************************************************)
\* The updates of a type in the log of a pipeline.
Updates(t, type) == SelectSeq(t.log, LAMBDA u : u.type = type)

TooLarge(path) ==
    /\ FileSystem[path].exists
    /\ FileSystem[path].isFile
    /\ FileSystem[path].size > maxFileSize

C16_CountersMonotone ==
    [][/\ stats'.processed >= stats.processed
       /\ stats'.failed >= stats.failed
       /\ stats'.skipped >= stats.skipped
       /\ stats'.totalSize >= stats.totalSize]_vars

\* getStats was called, and both processed and failed have grown since.
C16_Witness ==
    /\ snapshot.taken
    /\ snapshot.value.processed < stats.processed
    /\ snapshot.value.failed < stats.failed

\* C17: the progress updates of a path carry non-decreasing bytesRead values,
\* in the order they were posted, over all the attempts of its pipeline.
C17_ProgressNonDecreasing ==
    \A i \in 1..Len(files) :
        LET progress == Updates(tasks[i], "progress") IN
        \A j, k \in 1..Len(progress) : j < k => progress[j].n <= progress[k].n

\* C18: an attempt whose timeout signal fired while its read was in flight
\* does not end as a success: no pipeline resolves with the signal of its
\* last attempt aborted.
C18_TimeoutFailsAttempt ==
    \A i \in 1..Len(files) : tasks[i].pc = "resolved" => ~tasks[i].aborted

\* C19: a zero-byte file never has a progress update (so no percentage is
\* computed over a total of zero) and never more than one complete update;
\* the only failure an attempt on it can meet is its timeout firing before
\* the first read, so with no such timeout its first attempt succeeds; and
\* once its pipeline has succeeded there is exactly one complete update,
\* with empty content.
C19_EmptyFileCompletesOnce ==
    \A i \in 1..Len(files) :
        (FileSystem[files[i]].exists /\ FileSystem[files[i]].size = 0) =>
            LET t == tasks[i] IN
            /\ Updates(t, "progress") = <<>>
            /\ Len(Updates(t, "complete")) <= 1
            /\ t.lastError \in {None, "Operation aborted"}
            /\ t.lastError = None => t.attempts <= 1
            /\ t.pc # "rejected" \/ t.lastError = "Operation aborted"
            /\ t.pc = "resolved" =>
                  /\ Updates(t, "complete") = <<Event("complete", files[i], 0)>>
                  /\ t.result = 0
                  /\ yielded = <<>> \/ yielded[1].content = 0

\* A zero-byte file was read in one attempt and yielded.
C19_Witness ==
    /\ Len(files) = 1
    /\ FileSystem[files[1]].exists
    /\ FileSystem[files[1]].size = 0
    /\ tasks[1].pc = "resolved"
    /\ tasks[1].attempts = 1
    /\ Len(yielded) = 1
    /\ Updates(tasks[1], "complete") # <<>>

(***************************************************************************)
(* Properties of the scanner's extension filter.                           *)
(***************************************************************************)
\* The extension as it is described: the lowercased text after the last "."
\* of the name, and the empty string for a name without ".".
ExtensionAfterLastDot(name) ==
    IF LastDot(name, Len(name)) = 0 THEN <<>>
    ELSE LowerCase(Slice(name, LastDot(name, Len(name)) + 1))

\* The files of the last scanned tree that its ignore file does not exclude.
NotIgnored ==
    {k \in 1..Len(scan.tree) :
        ~shouldIgnore(loadFromFile(scan.ignoreFile, MissingFile, NoOptions),
                      MergedOptions(NoOptions), scan.tree[k].relativePath)}

\* C20: every scanned file is reported with the lowercased text after the last
\* "." of its name as its extension, "" when the name has no "."; and with a
\* non-empty allow-list the scan returns exactly the non-ignored files whose
\* extension, so defined, is in the list.
C20_ExtensionAllowList ==
    scan.done =>
        /\ \A k \in 1..Len(scan.files) :
              scan.files[k].extension
                  = ExtensionAfterLastDot(EntryName(scan.files[k].relativePath))
        /\ Len(scan.extensions) > 0 =>
              RelativePaths(scan.files) =
                  {scan.tree[k].relativePath : k \in
                      {j \in NotIgnored :
                          Includes(scan.extensions,
                                   ExtensionAfterLastDot(
                                       EntryName(scan.tree[j].relativePath)))}}

(***************************************************************************)
(* Properties of the statistics and of the events after a drain.           *)
(***************************************************************************)
\* The total size of the files of the pipelines 1..n that succeeded.
RECURSIVE ProcessedSize(_)
ProcessedSize(n) ==
    IF n = 0 THEN 0
    ELSE ProcessedSize(n - 1)
            + (IF tasks[n].pc = "resolved" THEN FileSystem[files[n]].size ELSE 0)

\* The pipelines of the files that the size constraint excludes.
SkippedForSize == {i \in 1..Len(files) : skipLargeFiles /\ TooLarge(files[i])}

\* C21: after processFiles has drained, totalSize is the total size of the
\* files that were processed successfully, skipped is the number of files
\* left out because of their size, and each of those has a skip update.
C21_TotalSizeAndSkipped ==
    Drained =>
        /\ stats.totalSize = ProcessedSize(Len(files))
        /\ stats.skipped = Cardinality(SkippedForSize)
        /\ \A i \in SkippedForSize : Updates(tasks[i], "skip") # <<>>

\* C22: getStats hands out a snapshot: a write of the caller to a field of
\* the returned object leaves this.stats as it is, and a step of the
\* processor leaves what the caller reads in a snapshot taken earlier as it
\* is.
C22_SnapshotIndependent ==
    [][/\ (\E field \in {"processed", "failed"} : CallerModifies(field))
            => stats' = stats
       /\ (snapshot.taken /\ Next) => Observed' = Observed]_vars

\* The caller has overwritten a field of a snapshot, the processor has counted
\* a success and a failure since the snapshot was taken, and neither shows in
\* the other.
C22_Witness ==
    /\ snapshot.taken
    /\ snapshot.value.processed = -1
    /\ snapshot.value.failed = 0
    /\ stats.processed = 1
    /\ stats.failed = 1

(***************************************************************************)
(* Properties of the scheduling of processFiles.                           *)
(***************************************************************************)
\* The awaited promise is settled and the generator has not resumed yet.
Resuming ==
    /\ gen = "awaiting"
    /\ inProgress # <<>>
    /\ tasks[AwaitedEntry(inProgress).id].pc \in Terminal

\* C23: for a list of distinct paths, at every instant at which paths are
\* pending in the queue as many pipelines are running as the cap allows,
\* also while the generator is suspended at its yield (the moment between
\* the awaited promise settling and the generator resuming left aside).
C23_CapKeptWhilePending ==
    (IsDistinct(files) /\ queue # <<>> /\ ~Resuming /\ ~crashed) =>
        Cardinality(Running) = maxConcurrent

(***************************************************************************)
(* Properties of the updates of one path.                                  *)
(***************************************************************************)
\* The positions of the updates of a type in the log of a pipeline.
Positions(t, type) == {k \in 1..Len(t.log) : t.log[k].type = type}

C25_TimeoutIsPerAttempt ==
    [][\A i \in 1..Len(files) : \A k \in tasks[i].armed :
          TimerFire(i, k) =>
              /\ \A j \in 1..Len(files) : j # i => tasks'[j] = tasks[j]
              /\ stats' = stats
              /\ tasks'[i] = [tasks[i] EXCEPT !.armed = tasks'[i].armed,
                                              !.aborted = tasks'[i].aborted]
              /\ (tasks'[i].aborted /\ ~tasks[i].aborted) =>
                    /\ k = tasks[i].attempts
                    /\ tasks[i].pc \in {"open", "read"}]_vars

\* The timeout of the first path has fired during its read, the timer of the
\* first attempt of the second path is gone, and the second path is reading
\* in its second attempt with its own timer armed and its signal not aborted.
C25_Witness ==
    /\ Len(files) = 2
    /\ tasks[1].aborted
    /\ tasks[1].pc = "read"
    /\ tasks[2].pc = "read"
    /\ ~tasks[2].aborted
    /\ tasks[2].attempts = 2
    /\ tasks[2].armed = {2}

(***************************************************************************)
(* Properties of empty patterns.                                           *)
(***************************************************************************)
\* The raw pattern normalizes to the empty string under the matcher's options.
NormalizesToEmpty(raw) ==
    normalizePattern(raw, ignoreOptions.allowNegation).pattern = <<>>

\* C26: a pattern that is empty after normalization is never added and never
\* matched: addPatterns of such a pattern leaves the rule list as it is, and
\* with it the verdict of shouldIgnore for every path.
C26_EmptyPatternsDiscarded ==
    [][\A raw \in EmptyPatterns \cup RawPatterns :
          (NormalizesToEmpty(raw) /\ AddPatterns(<<raw>>)) =>
              /\ patterns' = patterns
              /\ \A path \in TestPaths :
                    shouldIgnore(patterns', ignoreOptions, path)
                        = shouldIgnore(patterns, ignoreOptions, path)]_vars

\* A rule and then a pattern that normalizes to nothing were added: the
\* matcher holds the one rule, and a path is ignored by it.
C26_Witness ==
    /\ Len(added) = 2
    /\ ~NormalizesToEmpty(added[1])
    /\ added[2] \in EmptyPatterns
    /\ NormalizesToEmpty(added[2])
    /\ Len(patterns) = 1
    /\ asked.answered
    /\ asked.ignored

(***************************************************************************)
(* Properties of processFiles on lists with repeated paths.                *)
(***************************************************************************)
\* Pipeline i is the value of an entry of the Map inProgress.
Tracked(i) == \E k \in 1..Len(inProgress) : inProgress[k].id = i

\* C27: with a list that repeats a path, at most maxConcurrent pipelines are
\* running at any instant, and every running pipeline is held by an entry of
\* the in-flight collection.
C27_CapWithRepeatedPaths ==
    ~IsDistinct(files) =>
        /\ Cardinality(Running) <= maxConcurrent
        /\ \A i \in Running : Tracked(i)

\* C28: after processFiles has drained, as many results were yielded as
\* processed counts, and processed + failed is the length of the input list,
\* whether the list repeats a path or not.
C28_CountsMatchInput ==
    Drained =>
        /\ Len(yielded) = stats.processed
        /\ stats.processed + stats.failed = Len(files)

(***************************************************************************)
(* Properties of the processor after its channel is closed.                *)
(***************************************************************************)
\* C29: for a list of distinct paths, once endTime is stamped and the channel
\* closed, on a drain or on the consumer leaving early, no pipeline is still
\* running and none has tried to post an update on the closed channel.
C29_QuiescentAfterClose ==
    (IsDistinct(files) /\ channelClosed) =>
        /\ stats.endTime # -1
        /\ Running = {}
        /\ \A i \in 1..Len(files) :
              /\ tasks[i].lastError # "InvalidStateError"
              /\ tasks[i].thrown # "InvalidStateError"

(***************************************************************************)
(* Termination of processFiles.                                            *)
(***************************************************************************)
\* C30: with a consumer that iterates to the end and reads and delays that
\* eventually return, the generator eventually reaches its end with the queue
\* and the in-flight collection both empty, for every list, cap and
\* maxRetries.
C30_EventuallyDrained == <>Drained

(***************************************************************************)
(* Properties of the timeout timers.                                       *)
(***************************************************************************)
\* C31: a timer is armed only for an attempt that is under way: every armed
\* timer of a pipeline is the one of its current attempt, and that attempt
\* is still opening or reading its file.
C31_NoTimerAfterAttempt ==
    \A i \in 1..Len(files) : \A k \in tasks[i].armed :
        /\ k = tasks[i].attempts
        /\ tasks[i].pc \in {"open", "read"}

(***************************************************************************)
(* Properties of a second call of processFiles.                            *)
(***************************************************************************)
\* validateFile accepts the file at the path.
Readable(path) == validateFile(path) = None

\* C32: a second call of processFiles on a processor whose first call has
\* drained, once it has drained too, has read every readable input file and
\* yielded it with the content a new processor would yield (here: as many
\* bytes as the file holds).
C32_SecondCallReadsFiles ==
    (calls = 2 /\ Drained /\ IsDistinct(files)) =>
        \A i \in 1..Len(files) :
            Readable(files[i]) =>
                /\ tasks[i].pc = "resolved"
                /\ \E k \in 1..Len(yielded) :
                      /\ yielded[k].id = i
                      /\ yielded[k].content = FileSystem[files[i]].size

====
